---- MODULE Spec2Model ----
(***************************************************************************)
(* Model of src/routes/AuthRoutes.js: the POST /signup and POST /login     *)
(* route handlers and the protect(allowedRoles) middleware, together with  *)
(* the user store, the clock and the token codec they call.                *)
(*                                                                         *)
(* An async handler is cut at its awaits on the user store: what runs      *)
(* between two store accesses is one atomic step, and other requests and   *)
(* store changes interleave between the steps.                             *)
(***************************************************************************)
EXTENDS Integers, FiniteSets, Sequences, TLC

\* ------------------------------------------------------------------ bounds
\* users the signup requests of a run may create
MaxUsers == 2
\* clock ticks over a run
MaxTime == 1
\* successful logins over a run (each generates an access and a refresh token)
MaxLogins == 1

\* ------------------------------------------------------- values and inputs
Emails == {"a@x.io", "b@x.io"}
Roles == {"user", "admin"}
SignupProcs == {1, 2}
\* allowedRoles arrays a route may configure, as sets
AllowedRoleSets == {{}, {"admin"}, {"user"}}

\* Token lifetimes and secrets of utils/jwt and the process environment.
AccessTTL == 1
RefreshTTL == 2
ACCESS_TOKEN_SECRET == "access-secret"
REFRESH_TOKEN_SECRET == "refresh-secret"

\* A string that can stand in an Authorization header.  A signed JWT carries
\* the secret it was signed with and its payload; any other string has
\* sig = "none" and does not parse as a JWT.
Plain(s) == [text |-> s, sig |-> "none", userId |-> 0, role |-> "none", exp |-> 0]
Jwt(secret, id, role, exp) ==
  [text |-> "jwt", sig |-> secret, userId |-> id, role |-> role, exp |-> exp]
\* the value of an expression that is undefined in JavaScript
Undefined == Plain("<undefined>")
EmptyString == Plain("")
Space == Plain(" ")
Garbage == Plain("xyz")

\* a user document of the store; NoUser is the null a query returns
NoUser == [id |-> 0, email |-> "", password |-> "", userRole |-> ""]
NoPayload == [userId |-> 0, role |-> ""]

VARIABLES
  users,        \* the User collection: a set of documents
  nextId,       \* the next _id the store assigns
  uniqueEmail,  \* whether the User schema declares a unique index on email
  now,          \* the clock
  issued,       \* the tokens generated by successful logins
  logins,       \* number of successful logins so far
  sPc, sBody, sRes,   \* per signup request: position, body (email, password), response
  g             \* the request in the protect middleware

vars == <<users, nextId, uniqueEmail, now, issued, logins, sPc, sBody, sRes, g>>

\* ------------------------------------------------------------- user store
\* User.findOne({ email }): the first matching document, or null
FindOne(us, email) ==
  LET m == {u \in us : u.email = email}
  IN IF m = {} THEN NoUser ELSE CHOOSE u \in m : \A v \in m : u.id <= v.id

\* User.findById(id): the document with that _id, or null
FindById(us, id) ==
  LET m == {u \in us : u.id = id}
  IN IF m = {} THEN NoUser ELSE CHOOSE u \in m : TRUE

\* bcrypt.hash / bcrypt.compare: the hash is not the password, and compares
\* equal only to the password it was made from
Hash(pw) == pw \o "#10"
Compare(pw, hashed) == Hash(pw) = hashed

Response(status, message) == [status |-> status, message |-> message]
NoResponse == Response(0, "")

\* ------------------------------------------------------------ POST /signup
\* lines 32-38: the first failing check answers 400
SignupInvalid(b) ==
  IF ~b.firstName THEN Response(400, "First Name is required.")
  ELSE IF ~b.lastName THEN Response(400, "Last Name is required.")
  ELSE IF b.email = "" THEN Response(400, "Email is required.")
  ELSE IF ~b.phone THEN Response(400, "Phone number is required.")
  ELSE IF b.password = "" THEN Response(400, "Password is required.")
  ELSE IF b.gender \notin {"Male", "Female"} THEN Response(400, "Invalid gender.")
  ELSE IF ~b.terms THEN Response(400, "Terms must be accepted.")
  ELSE NoResponse

\* the request bodies tried: a complete one per email, and each of them with
\* one field missing or wrong
ValidBody(e) ==
  [firstName |-> TRUE, lastName |-> TRUE, email |-> e, phone |-> TRUE,
   password |-> "pw", gender |-> "Female", terms |-> TRUE]
SignupBodies ==
  UNION {{ValidBody(e),
          [ValidBody(e) EXCEPT !.gender = "Male"],
          [ValidBody(e) EXCEPT !.firstName = FALSE],
          [ValidBody(e) EXCEPT !.lastName = FALSE],
          [ValidBody(e) EXCEPT !.email = ""],
          [ValidBody(e) EXCEPT !.phone = FALSE],
          [ValidBody(e) EXCEPT !.password = ""],
          [ValidBody(e) EXCEPT !.gender = "Other"],   \* any value line 37 rejects
          [ValidBody(e) EXCEPT !.terms = FALSE]} : e \in Emails}

\* lines 28-41: validation, then the existence query is answered by the store
SignupCheck(p, b) ==
  /\ sPc[p] \in {"idle", "done"}
  /\ nextId <= MaxUsers
  /\ IF SignupInvalid(b) # NoResponse
       THEN /\ sPc' = [sPc EXCEPT ![p] = "done"]
            /\ sRes' = [sRes EXCEPT ![p] = SignupInvalid(b)]
            /\ sBody' = [sBody EXCEPT ![p] = [email |-> b.email, password |-> b.password]]
       ELSE IF FindOne(users, b.email) # NoUser
       THEN /\ sPc' = [sPc EXCEPT ![p] = "done"]
            /\ sRes' = [sRes EXCEPT ![p] = Response(400, "Email is already registered.")]
            /\ sBody' = [sBody EXCEPT ![p] = [email |-> b.email, password |-> b.password]]
       ELSE /\ sPc' = [sPc EXCEPT ![p] = "save"]
            /\ sRes' = [sRes EXCEPT ![p] = NoResponse]
            /\ sBody' = [sBody EXCEPT ![p] = [email |-> b.email, password |-> b.password]]
  /\ UNCHANGED <<users, nextId, uniqueEmail, now, issued, logins, g>>

\* lines 52-63: the new document, userRole "user"
NewUser(id, b) ==
  [id |-> id, email |-> b.email, password |-> Hash(b.password), userRole |-> "user"]

\* lines 44-73: helpers, hash, save and the response.  save() rejects when the
\* store is unavailable (fails) or when a unique index on email finds the
\* email taken; the catch answers 500 with the error's message.
SignupSave(p, fails) ==
  /\ sPc[p] = "save"
  /\ sPc' = [sPc EXCEPT ![p] = "done"]
  /\ IF fails
       THEN /\ sRes' = [sRes EXCEPT ![p] = Response(500, "store unavailable")]
            /\ UNCHANGED <<users, nextId>>
       ELSE IF uniqueEmail /\ FindOne(users, sBody[p].email) # NoUser
       THEN /\ sRes' = [sRes EXCEPT ![p] = Response(500, "E11000 duplicate key error")]
            /\ UNCHANGED <<users, nextId>>
       ELSE /\ users' = users \cup {NewUser(nextId, sBody[p])}
            /\ nextId' = nextId + 1
            /\ sRes' = [sRes EXCEPT ![p] =
                 Response(201, "User successfully created. You can now log in.")]
  /\ UNCHANGED <<uniqueEmail, now, issued, logins, sBody, g>>

\* ------------------------------------------------------------- POST /login
\* utils/jwt generateAccessToken({ userId, role }): signed with the access
\* secret, expiring AccessTTL after it is issued
generateAccessToken(userId, role, t) ==
  Jwt(ACCESS_TOKEN_SECRET, userId, role, t + AccessTTL)

\* utils/jwt generateRefreshToken(userId): no role, the refresh secret, the
\* longer lifetime
generateRefreshToken(userId, t) ==
  Jwt(REFRESH_TOKEN_SECRET, userId, "none", t + RefreshTTL)

\* lines 104-105: the tokens a successful login generates for the user it read
LoginTokens(user, t) ==
  { generateAccessToken(user.id, user.userRole, t), generateRefreshToken(user.id, t) }

\* lines 92-101 and 119: the status and message POST /login answers with,
\* given the document findOne returned
LoginResponse(user, email, password) ==
  IF email = "" THEN Response(400, "Email is required.")
  ELSE IF password = "" THEN Response(400, "Password is required.")
  ELSE IF user = NoUser THEN Response(400, "Invalid credentials.")
  ELSE IF ~Compare(password, user.password) THEN Response(400, "Invalid credentials.")
  ELSE Response(200, "Login successful.")

\* lines 88-138.  The handler reads the store once (findOne) and works on the
\* document it read; it writes nothing.  A login answered 200 has generated
\* the two tokens; any other answer leaves nothing behind.
Login(email, password) ==
  /\ logins < MaxLogins
  /\ LET user == FindOne(users, email)
     IN IF LoginResponse(user, email, password).status = 200
          THEN /\ issued' = issued \cup LoginTokens(user, now)
               /\ logins' = logins + 1
          ELSE UNCHANGED <<issued, logins>>
  /\ UNCHANGED <<users, nextId, uniqueEmail, now, sPc, sBody, sRes, g>>

\* ------------------------------------------------ environment: store, clock
\* another client of the store changes a user's role
StoreSetRole(id, role) ==
  /\ \E u \in users : u.id = id /\ u.userRole # role
  /\ users' = {IF u.id = id THEN [u EXCEPT !.userRole = role] ELSE u : u \in users}
  /\ UNCHANGED <<nextId, uniqueEmail, now, issued, logins, sPc, sBody, sRes, g>>

\* another client of the store deletes a user
StoreDelete(id) ==
  /\ \E u \in users : u.id = id
  /\ users' = {u \in users : u.id # id}
  /\ UNCHANGED <<nextId, uniqueEmail, now, issued, logins, sPc, sBody, sRes, g>>

Tick ==
  /\ now < MaxTime
  /\ now' = now + 1
  /\ UNCHANGED <<users, nextId, uniqueEmail, issued, logins, sPc, sBody, sRes, g>>

\* ------------------------------------------------- protect(allowedRoles)
\* String.prototype.split(' ') on a header value written as the sequence of
\* its words and single spaces (no two words adjacent): the fields between
\* the spaces, an empty string where two separators meet or one ends the value
RECURSIVE Split(_)
Split(raw) ==
  IF raw = <<>> THEN <<EmptyString>>
  ELSE IF Head(raw) = Space THEN <<EmptyString>> \o Split(Tail(raw))
  ELSE IF Len(raw) = 1 THEN <<raw[1]>>
  ELSE <<raw[1]>> \o Split(Tail(Tail(raw)))

\* line 162: req.headers.authorization?.split(' ')[1]
ExtractToken(hdr) ==
  IF ~hdr.present THEN Undefined
  ELSE LET parts == Split(hdr.raw)
       IN IF Len(parts) >= 2 THEN parts[2] ELSE Undefined

\* line 165: !token is true of undefined and of the empty string
Truthy(s) == s # Undefined /\ s # EmptyString

\* jsonwebtoken's verify(token, secret) at time t: throws on a string that is
\* no JWT, on a signature made with another secret, and on an expired token;
\* otherwise returns the payload
jwtVerify(token, secret, t) ==
  IF token.text # "jwt" THEN [ok |-> FALSE, payload |-> NoPayload]
  ELSE IF token.sig # secret THEN [ok |-> FALSE, payload |-> NoPayload]
  ELSE IF t >= token.exp THEN [ok |-> FALSE, payload |-> NoPayload]
  ELSE [ok |-> TRUE, payload |-> [userId |-> token.userId, role |-> token.role]]

\* (mutant of GateSecret: the gate verifies with the refresh secret)
GateSecretRefresh == REFRESH_TOKEN_SECRET

\* line 170: the secret the gate verifies with
GateSecret == ACCESS_TOKEN_SECRET

\* the responses of lines 166, 176, 188, 194
TokenRequired == Response(401, "Authorization token required")
UserNotFound == Response(404, "User not found")
Forbidden == Response(403, "Access forbidden: Insufficient privileges")
InvalidToken == Response(401, "Invalid or expired token")

\* (mutant of RoleForbidden: the length test is off by one)
RoleForbiddenLengthOffByOne(allowedRoles, user) ==
  Cardinality(allowedRoles) > 1 /\ user.userRole \notin allowedRoles

\* line 184: allowedRoles.length && !allowedRoles.includes(user.userRole)
RoleForbidden(allowedRoles, user) ==
  allowedRoles # {} /\ user.userRole \notin allowedRoles

\* (mutant of AttachedUser: the identity is attached after the role check)
AttachedUserIfAllowed(user, allowedRoles) ==
  IF RoleForbidden(allowedRoles, user) THEN NoUser ELSE user

\* line 180: req.user = user, before the role check and whatever it decides
AttachedUser(user, allowedRoles) == user

\* the request before the middleware has run
IdleGate ==
  [pc |-> "idle", hdr |-> [present |-> FALSE, raw |-> <<>>], allowedRoles |-> {},
   token |-> Undefined, decoded |-> NoPayload, user |-> NoUser, reqUser |-> NoUser,
   res |-> <<>>, nextCalls |-> 0, verifyCalls |-> 0, findCalls |-> 0]

\* a token signed by someone who does not hold the server's secrets
Forged == Jwt("attacker-secret", 1, "admin", MaxTime + 1)

\* the Authorization headers a client holding the tokens ts can send
Headers(ts) ==
  LET toks == ts \cup {Garbage, Forged}
      Word(w) == Plain(w)
  IN {[present |-> FALSE, raw |-> <<>>]}
     \cup {[present |-> TRUE, raw |-> r] :
             r \in {<<Word("Bearer")>>, <<Word("Bearer"), Space>>}}
     \cup {[present |-> TRUE, raw |-> <<Word(s), Space, t>>] :
             s \in {"Bearer", "Basic"}, t \in toks}
     \cup {[present |-> TRUE, raw |-> r] :
             r \in {<<Garbage>>, <<Word("Bearer"), Space, Space, Garbage>>}}

\* lines 160-173, up to the await on findById: Extract and Verify
ProtectBegin(hdr, allowedRoles) ==
  /\ g.pc \in {"idle", "done"}
  /\ LET token == ExtractToken(hdr)
         v == jwtVerify(token, GateSecret, now)
         r == [IdleGate EXCEPT !.hdr = hdr, !.allowedRoles = allowedRoles,
                               !.token = token]
     IN IF ~Truthy(token) THEN
          g' = [r EXCEPT !.pc = "done", !.res = <<TokenRequired>>]
        ELSE IF ~v.ok THEN
          g' = [r EXCEPT !.pc = "done", !.verifyCalls = 1, !.res = <<InvalidToken>>]
        ELSE
          g' = [r EXCEPT !.pc = "lookup", !.verifyCalls = 1, !.decoded = v.payload,
                         !.findCalls = 1]
  /\ UNCHANGED <<users, nextId, uniqueEmail, now, issued, logins, sPc, sBody, sRes>>

\* lines 173-195, from the store's answer to findById on: Resolve, attach,
\* Authorize, next().  lookupFails: findById rejects (the store is
\* unavailable); nextThrows: the downstream operation throws synchronously.
\* Either lands in the catch of line 193.
ProtectResume(lookupFails, nextThrows) ==
  /\ g.pc = "lookup"
  /\ LET user == FindById(users, g.decoded.userId)
         attached == [g EXCEPT !.pc = "done", !.user = user,
                               !.reqUser = AttachedUser(user, g.allowedRoles)]
     IN IF lookupFails THEN
          g' = [g EXCEPT !.pc = "done", !.res = <<InvalidToken>>]
        ELSE IF user = NoUser THEN
          g' = [g EXCEPT !.pc = "done", !.res = <<UserNotFound>>]
        ELSE IF RoleForbidden(g.allowedRoles, user) THEN
          g' = [attached EXCEPT !.res = <<Forbidden>>]
        ELSE IF nextThrows THEN
          g' = [attached EXCEPT !.nextCalls = 1, !.res = <<InvalidToken>>]
        ELSE
          g' = [attached EXCEPT !.nextCalls = 1]
  /\ UNCHANGED <<users, nextId, uniqueEmail, now, issued, logins, sPc, sBody, sRes>>

\* ---------------------------------------------------------- specification
\* The gate, the login and the store under them.  The store starts with the
\* two users that two completed signups leave in it.
RegisteredUsers == {NewUser(1, ValidBody("a@x.io")), NewUser(2, ValidBody("b@x.io"))}
UserIds == {u.id : u \in RegisteredUsers}

\* (uniqueEmail is read by save() alone, which no action below calls.)
Init ==
  /\ users = RegisteredUsers
  /\ nextId = 3
  /\ uniqueEmail = FALSE
  /\ now = 0
  /\ issued = {}
  /\ logins = 0
  /\ sPc = [p \in SignupProcs |-> "idle"]
  /\ sBody = [p \in SignupProcs |-> [email |-> "", password |-> ""]]
  /\ sRes = [p \in SignupProcs |-> NoResponse]
  /\ g = IdleGate

Next ==
  \/ \E e \in Emails \cup {""}, pw \in {"pw", "wrong", ""} : Login(e, pw)
  \/ \E id \in UserIds, r \in Roles : StoreSetRole(id, r)
  \/ \E id \in UserIds : StoreDelete(id)
  \/ Tick
  \/ \E h \in Headers(issued), a \in AllowedRoleSets : ProtectBegin(h, a)
  \/ \E lf \in BOOLEAN, nt \in BOOLEAN : ProtectResume(lf, nt)

Spec == Init /\ [][Next]_vars

\* Concurrent POST /signup requests on a store that starts empty.
SignupInit ==
  /\ users = {}
  /\ nextId = 1
  /\ uniqueEmail \in BOOLEAN
  /\ now = 0
  /\ issued = {}
  /\ logins = 0
  /\ sPc = [p \in SignupProcs |-> "idle"]
  /\ sBody = [p \in SignupProcs |-> [email |-> "", password |-> ""]]
  /\ sRes = [p \in SignupProcs |-> NoResponse]
  /\ g = IdleGate

SignupNext ==
  \/ \E p \in SignupProcs, b \in SignupBodies : SignupCheck(p, b)
  \/ \E p \in SignupProcs, fails \in BOOLEAN : SignupSave(p, fails)

SignupSpec == SignupInit /\ [][SignupNext]_vars

\* ------------------------------------------------------------------ claims
Done == g.pc = "done"
Admitted == g.nextCalls >= 1
Statuses == {g.res[i].status : i \in 1..Len(g.res)}
\* the header has the form "Bearer <token>" with a non-empty token
BearerTokenPresent(hdr) ==
  /\ hdr.present
  /\ Len(hdr.raw) = 3
  /\ hdr.raw[1] = Plain("Bearer") /\ hdr.raw[2] = Space /\ hdr.raw[3] # Space
\* jwt.verify returned a payload: the token verified under the gate's secret
\* and was unexpired
Verified == g.decoded # NoPayload
RoleAdmits(allowedRoles, user) == allowedRoles = {} \/ user.userRole \in allowedRoles
IsRefreshToken(t) == t.text = "jwt" /\ t.sig = REFRESH_TOKEN_SECRET
\* what the store's state says the gate should decide for subject id
StoreDecision(us, id, allowedRoles) ==
  IF FindById(us, id) = NoUser THEN "404"
  ELSE IF RoleAdmits(allowedRoles, FindById(us, id)) THEN "admitted"
  ELSE "403"
\* what the gate decided
Decision(gate) ==
  IF gate.nextCalls >= 1 THEN "admitted"
  ELSE IF gate.res = <<>> THEN "none"
  ELSE IF gate.res[1].status = 404 THEN "404"
  ELSE IF gate.res[1].status = 403 THEN "403"
  ELSE "401"

\* C1: a finished request was passed to next() if and only if a bearer token
\* was present, it verified under the access secret, its subject resolved to
\* an identity of the store, and allowedRoles is empty or holds that
\* identity's stored role.
C1_AdmittedIff ==
  Done => (Admitted <=> /\ BearerTokenPresent(g.hdr)
                        /\ Verified
                        /\ g.user # NoUser
                        /\ RoleAdmits(g.allowedRoles, g.user))

\* (C1, reading "a token is present" as line 165 does: the header's second
\* field is non-empty, whatever the scheme word before it.)
AdmittedIffAnyScheme ==
  Done => (Admitted <=> /\ Truthy(ExtractToken(g.hdr))
                        /\ Verified
                        /\ g.user # NoUser
                        /\ RoleAdmits(g.allowedRoles, g.user))

\* C2: a request whose header is absent or not of the form "Bearer <token>"
\* is answered 401 "Authorization token required", and neither jwt.verify
\* nor the user store is called for it.
C2_MalformedHeaderHalts ==
  (g.pc # "idle" /\ ~BearerTokenPresent(g.hdr)) =>
    /\ Done
    /\ g.res = <<Response(401, "Authorization token required")>>
    /\ g.verifyCalls = 0 /\ g.findCalls = 0 /\ g.nextCalls = 0

\* C3: when the lookup step of a request with a verified token finds the
\* store without the token's subject, the request ends with the single
\* response 404 "User not found" and next() is not called.
C3_MissingSubjectIs404 ==
  [][(g.pc = "lookup" /\ g'.pc = "done"
        /\ FindById(users, g.decoded.userId) = NoUser)
      => (g'.res = <<Response(404, "User not found")>> /\ g'.nextCalls = 0)]_vars

\* C4: a finished request whose token verified was never answered 401.
C4_No401OnceVerified ==
  (Done /\ Verified) => 401 \notin Statuses

C6_AttachedIffAdmitted ==
  Done => (g.reqUser # NoUser <=> Admitted)

\* C6 (amended): at the end of a request req.user is set if and only if the
\* lookup found the identity, that is, if and only if the request was passed
\* to next() or answered 403; it then is the document the lookup returned.
C6_AttachedIffResolved ==
  Done => /\ g.reqUser # NoUser <=> (Admitted \/ 403 \in Statuses)
          /\ g.reqUser # NoUser <=> g.user # NoUser
          /\ g.reqUser = g.user

C6_Witness ==
  Done /\ g.res = <<Forbidden>> /\ g.reqUser # NoUser /\ ~Admitted

\* C7: the step that completes a request with a verified token decides it
\* by the store's state at that step: 404 when the subject is not in the
\* store, 403 when its stored role is not allowed, admitted otherwise.
C7_DecidedByStore ==
  [][(g.pc = "lookup" /\ g'.pc = "done")
      => Decision(g') = StoreDecision(users, g.decoded.userId, g.allowedRoles)]_vars

\* (C3 and C7 apart from a failing lookup: a request whose lookup the store
\* answered is decided by the store's state at that step.)
DecidedByStoreWhenAnswered ==
  [][(g.pc = "lookup" /\ g'.pc = "done"
        /\ ~(g'.res = <<InvalidToken>> /\ g'.nextCalls = 0))
      => Decision(g') = StoreDecision(users, g.decoded.userId, g.allowedRoles)]_vars

\* C8: a request presenting a refresh token is answered 401 by the Verify
\* step: the store is not read and next() is not called.
C8_RefreshTokenRejected ==
  (g.pc # "idle" /\ IsRefreshToken(ExtractToken(g.hdr))) =>
    /\ Done
    /\ g.res = <<Response(401, "Invalid or expired token")>>
    /\ g.findCalls = 0 /\ g.nextCalls = 0

\* an unexpired refresh token of a user still in the store, sent as
\* "Bearer <token>" to a route that accepts any role
C8_Witness ==
  /\ Done /\ BearerTokenPresent(g.hdr) /\ g.allowedRoles = {}
  /\ IsRefreshToken(g.token) /\ g.token \in issued
  /\ now < g.token.exp
  /\ FindById(users, g.token.userId) # NoUser
  /\ g.res # <<>>

\* C9: a finished request has exactly one outcome: one rejection (401, 404
\* or 403) and no call of next(), or one call of next() and no response.
C9_OneOutcome ==
  Done => \/ /\ Len(g.res) = 1 /\ g.res[1].status \in {401, 404, 403}
             /\ g.nextCalls = 0
          \/ /\ g.nextCalls = 1 /\ g.res = <<>>

\* C10: the store holds at most one user per email, and when one of two
\* finished signup requests with the same email was answered 201, the other
\* was answered 400 "Email is already registered." (and not 201, nor 500
\* for a duplicate key).
C10_OneUserPerEmail ==
  /\ \A e \in Emails : Cardinality({u \in users : u.email = e}) <= 1
  /\ \A p, q \in SignupProcs :
       (/\ p # q /\ sPc[p] = "done" /\ sPc[q] = "done"
        /\ sBody[p].email = sBody[q].email
        /\ sRes[p].status = 201 /\ sRes[q].status \in {201, 500})
       => sRes[q] = Response(500, "store unavailable")

====
